---- MODULE Spec2Model ----
(***************************************************************************)
(* Hybrid retrieval pipeline of neo4j_implementation: module start-up      *)
(* (config.py, ingest.py, retrieval.py), the orchestrator                  *)
(* retrieval.retrieve, the answer generator generate_answer_with_mistral   *)
(* and the command-line wrapper of scripts.py.                             *)
(*                                                                         *)
(* Text is a sequence of one-character strings; a Python str and a Python  *)
(* list are kept apart by a "kind" tag.  An exception is a record with the *)
(* class that was raised and the exception it wraps ("none" if it wraps    *)
(* nothing).                                                               *)
(***************************************************************************)
EXTENDS Integers, Sequences, FiniteSets, TLC

VARIABLES
    entry,        \* which module the interpreter runs or imports first
    env,          \* environment variables that are set when the process starts
    chunks,       \* the texts of the Chunk nodes of the graph store (never changes)
    collection,   \* the payload texts of the points of the vector store (never changes)
    phase,        \* position of the process in its start-up and main code
    constructed,  \* the clients constructed so far
    apiKey,       \* where retrieval.api_key came from
    binding,      \* what the global name `retrieve` of scripts.py refers to
    depth,        \* live frames of scripts.retrieve
    exitCode,     \* -1 while the process runs, then its exit status
    procExc,      \* class of the exception that ended the process, or "none"
    printed,      \* <<answer>> once scripts.py has printed it, <<>> before
    argQuery,     \* sys.argv[1] as read by scripts.py
    call,         \* per invocation of retrieval.retrieve: its coroutine's state
    \* preprocess.extract_entities_relationships (the offline extraction job)
    epc,                   \* position of the job: "off", "loop", "calling", "done"
    now,                   \* datetime.now(), in seconds since midnight of the day the job began
    chapters,              \* identify_chapters(text): per chapter the lengths of heading and text
    chapterIndex,          \* chapters handled so far (the loop variable i, once past them)
    requests_timestamps,   \* the local of that name
    tokens_usage,          \* the local of that name: <<time, characters>> (tokens times 4)
    daily_requests_count,  \* the local of that name
    day_start,             \* the local of that name
    results,               \* the local of that name: "concepts" or "error" per chapter
    issuedAt,              \* history: the times at which generate_content was called
    counted                \* history: how many calls were appended to requests_timestamps

batch == <<epc, now, chapters, chapterIndex, requests_timestamps, tokens_usage,
           daily_requests_count, day_start, results, issuedAt, counted>>

vars == <<entry, env, chunks, collection, phase, constructed, apiKey, binding, depth,
          exitCode, procExc, printed, argQuery, call, batch>>

----------------------------------------------------------------------------
(* Bounds of the model *)

RecursionLimit == 3

\* Two invocations of retrieve, which may follow each other or overlap: the
\* statements about repeated and about concurrent calls relate pairs of calls.
Calls == {1, 2}

----------------------------------------------------------------------------
(* Program constants *)

VectorLimit == 5
GraphLimit == 5

RequiredVars == {"QDRANT_URL", "NEO4J_URI", "NEO4J_USERNAME", "NEO4J_PASSWORD", "NEO4J_DATABASE"}
ApiKeyVar == "MISTRAL_API_KEY"
AllVars == RequiredVars \cup {ApiKeyVar}

----------------------------------------------------------------------------
(* Text *)

NL == "\n"
Whitespace == {" ", NL}

EmptyText == << >>

Lower(ch) == CASE ch = "A" -> "a" [] ch = "B" -> "b" [] OTHER -> ch

\* str.lower() / Cypher toLower()
ToLower(s) == [i \in 1..Len(s) |-> Lower(s[i])]

\* Cypher `a CONTAINS b`
Contains(s, sub) ==
    \E i \in 0..(Len(s) - Len(sub)) : SubSeq(s, i + 1, i + Len(sub)) = sub

\* the WHERE clause of the Cypher query of retrieve
CypherMatch(text, query) == Contains(ToLower(text), ToLower(query))

RECURSIVE Join(_)
\* "\n".join(texts)
Join(texts) ==
    IF Len(texts) = 0 THEN EmptyText
    ELSE IF Len(texts) = 1 THEN texts[1]
    ELSE texts[1] \o <<NL>> \o Join(Tail(texts))

RECURSIVE LStrip(_)
LStrip(s) == IF Len(s) > 0 /\ s[1] \in Whitespace THEN LStrip(Tail(s)) ELSE s

RECURSIVE RStrip(_)
RStrip(s) ==
    IF Len(s) > 0 /\ s[Len(s)] \in Whitespace THEN RStrip(SubSeq(s, 1, Len(s) - 1)) ELSE s

\* str.strip()
Strip(s) == RStrip(LStrip(s))

\* Python values returned by retrieve
Str(s) == [kind |-> "str", val |-> s]
List(xs) == [kind |-> "list", val |-> xs]

----------------------------------------------------------------------------
(* The external services *)

CharCode(ch) == CASE ch = "a" -> 1 [] ch = "A" -> 2 [] ch = "b" -> 3 [] ch = "B" -> 2 [] OTHER -> 0

RECURSIVE CodeSum(_)
CodeSum(s) == IF Len(s) = 0 THEN 0 ELSE CharCode(s[1]) + CodeSum(Tail(s))

\* embeddings.embed_query(text): a deterministic map from text to a vector
Embed(text) == CodeSum(text) % 4

Abs(n) == IF n < 0 THEN -n ELSE n

\* the points ingest.py upserts: one per chunk, its vector the chunk's embedding
Points(cs) == [i \in 1..Len(cs) |-> [vector |-> Embed(cs[i]), payload |-> [text |-> cs[i]]]]

Min(a, b) == IF a < b THEN a ELSE b

\* qdrant_client.search(collection, query_vector, limit): the `limit` nearest
\* points, nearest first; equal distances keep the stored order
Search(cs, qvec, limit) ==
    LET pts == Points(cs)
        n == Len(pts)
        Dist(i) == Abs(pts[i].vector - qvec)
        Before(i, j) == Dist(i) < Dist(j) \/ (Dist(i) = Dist(j) /\ i < j)
        Rank(i) == 1 + Cardinality({j \in 1..n : Before(j, i)})
    IN [k \in 1..Min(limit, n) |-> pts[CHOOSE i \in 1..n : Rank(i) = k]]

\* The Cypher query of retrieve: MATCH (c:Chunk) WHERE toLower(c.text) CONTAINS
\* toLower($query) RETURN c.text LIMIT 5.  It has no ORDER BY, so the store may
\* return any `limit` of the matching nodes, in any order.
GraphResults(cs, query, limit) ==
    LET matching == {i \in 1..Len(cs) : CypherMatch(cs[i], query)}
        k == Min(limit, Cardinality(matching))
        picks == {f \in [1..k -> matching] : \A a, b \in 1..k : a # b => f[a] # f[b]}
    IN {[j \in 1..k |-> cs[f[j]]] : f \in picks}

\* exceptions of the libraries
NoExc == [type |-> "none", cause |-> "none"]
Exc(t) == [type |-> t, cause |-> "none"]
EmbeddingError == Exc("ProviderError")
QdrantError == Exc("UnexpectedResponse")
Neo4jError == Exc("ServiceUnavailable")
MistralError == Exc("SDKError")

\* An exception that no except clause catches leaves the function unchanged:
\* neither retrieve nor generate_answer_with_mistral has a try statement.
Propagate(e) == e

----------------------------------------------------------------------------
(* Inputs *)

Queries == { EmptyText, <<" ">>, <<"a">>, <<"B">> }
NoArg == <<"<no argv[1]>">>

Worlds == { << >>,
            << <<"a", "b">>, <<"A">> >>,
            << <<"a">>, <<"a">>, <<"a">>, <<"a">>, <<"a">>, <<"a", "b">> >> }

\* What the two stores hold when the query process starts.  A complete run of
\* ingest_to_qdrant_and_neo4j leaves the same texts in both; a run that stopped
\* between the upserts (lines 106-112) and the graph writes (lines 118-142)
\* leaves the new file's texts in the collection and the chunks of the file
\* ingested before, here EarlierFile, in the graph.
EarlierFile == << <<"a", "b">>, <<"A">> >>
Stores == { <<w, w>> : w \in Worlds } \cup { <<EarlierFile, w>> : w \in Worlds }

Contents == { <<"a">>, <<" ", "a", NL>> }

EnvChoices == {AllVars} \cup {AllVars \ {v} : v \in AllVars}

StoreClients == {"qdrant", "neo4j", "embeddings"}

----------------------------------------------------------------------------
(* State of one invocation of retrieval.retrieve and of the generation that
   follows it *)

\* the parameters of session.run: none before the call, {"query": query} after
NoParams == << >>
RunParams(query) == [query |-> query]

NoCalls == [embed |-> 0, search |-> 0, graph |-> 0, chat |-> 0]

IdleCall == [pc |-> "idle", owner |-> "none", after |-> {}, query |-> EmptyText, qvec |-> 0,
             relevant_texts |-> << >>, vctx |-> EmptyText, runParams |-> NoParams, records |-> << >>,
             cursor |-> << >>,
             gctx |-> << >>,
             ret |-> << >>, exc |-> NoExc, issued |-> NoCalls, failed |-> {},
             genArgs |-> << >>, answer |-> EmptyText]

Init ==
    /\ entry \in {"scripts", "retrieval"}
    /\ env \in EnvChoices
    /\ \E st \in Stores : chunks = st[1] /\ collection = st[2]
    /\ phase = IF entry = "scripts" THEN "import_ingest" ELSE "import_retrieval"
    /\ constructed = {}
    /\ apiKey = "unset"
    /\ binding = "unbound"
    /\ depth = 0
    /\ exitCode = -1
    /\ procExc = "none"
    /\ printed = << >>
    /\ argQuery = NoArg
    /\ call = [c \in Calls |-> IdleCall]
    /\ epc = "off"
    /\ now = 0
    /\ chapters = << >>
    /\ chapterIndex = 0
    /\ requests_timestamps = << >>
    /\ tokens_usage = << >>
    /\ daily_requests_count = 0
    /\ day_start = 0
    /\ results = << >>
    /\ issuedAt = << >>
    /\ counted = 0

----------------------------------------------------------------------------
(* Start-up: the module-level code that runs on import *)

fixed == <<entry, env, chunks, collection, batch>>

\* the process ends with an uncaught exception: traceback, exit status 1
Die(excType) ==
    /\ phase' = "exited"
    /\ exitCode' = 1
    /\ procExc' = excType
    /\ depth' = 0

\* a validate_environment whose list lacks NEO4J_DATABASE
MissingButDatabase(e) == {v \in RequiredVars \ {"NEO4J_DATABASE"} : v \notin e}

\* config.validate_environment: the required variables that are not set
Missing(e) == {v \in RequiredVars : v \notin e}

\* scripts.py line 7 imports ingest, whose module code calls
\* initialize_config() and then reads the concept list from its JSON file
ImportIngest ==
    /\ phase = "import_ingest"
    /\ IF Missing(env) # {}
       THEN /\ Die("EnvironmentError")
            /\ UNCHANGED constructed
       ELSE /\ constructed' = constructed \cup StoreClients
            /\ \E conceptFile \in BOOLEAN :
                  IF conceptFile
                  THEN /\ phase' = "import_retrieval"
                       /\ UNCHANGED <<exitCode, procExc, depth>>
                  ELSE Die("FileNotFoundError")
    /\ UNCHANGED <<fixed, apiKey, binding, printed, argQuery, call>>

\* retrieval.py lines 18-22: the API key comes from the environment or, when
\* it is not set, from a getpass prompt; then the chat client is constructed
ImportRetrieval ==
    /\ phase = "import_retrieval"
    /\ \E typed \in {"typed", "empty", "eof"} :
          LET key == IF ApiKeyVar \in env THEN "env" ELSE typed
          IN IF key = "eof"
             THEN /\ Die("EOFError")
                  /\ UNCHANGED <<apiKey, constructed>>
             ELSE /\ apiKey' = key
                  /\ constructed' = constructed \cup {"chat"}
                  /\ phase' = "init_config"
                  /\ UNCHANGED <<exitCode, procExc, depth>>
    /\ UNCHANGED <<fixed, binding, printed, argQuery, call>>

\* The global name `retrieve` of scripts.py once its module code has run:
\* line 8 binds it to retrieval.retrieve, the def at line 43 binds it again.
ScriptsRetrieveBinding ==
    LET bindings == << "retrieval.retrieve", "scripts.retrieve" >>
    IN bindings[Len(bindings)]

\* retrieval.py line 24: initialize_config() validates the environment and
\* constructs the two store clients and the embedding model
InitConfig ==
    /\ phase = "init_config"
    /\ IF Missing(env) # {}
       THEN /\ Die("EnvironmentError")
            /\ UNCHANGED <<constructed, binding>>
       ELSE /\ constructed' = constructed \cup StoreClients
            /\ phase' = IF entry = "scripts" THEN "main" ELSE "ready"
            /\ binding' = IF entry = "scripts" THEN ScriptsRetrieveBinding ELSE binding
            /\ UNCHANGED <<exitCode, procExc, depth>>
    /\ UNCHANGED <<fixed, apiKey, printed, argQuery, call>>

----------------------------------------------------------------------------
(* retrieval.retrieve, step by step between its await points.  Each operator
   maps the coroutine's record to its record after the step. *)

Bump(issued, dep) == [issued EXCEPT ![dep] = @ + 1]

\* lines 26-37: embed the query, then issue the vector search and suspend
RetrieveEnter(r, q, who, embedOk) ==
    IF embedOk
    THEN [r EXCEPT !.pc = "await_search", !.owner = who, !.query = q,
                   !.qvec = Embed(q),
                   !.issued = Bump(Bump(@, "embed"), "search")]
    ELSE [r EXCEPT !.pc = "raised", !.owner = who, !.query = q,
                   !.exc = Propagate(EmbeddingError),
                   !.issued = Bump(@, "embed"),
                   !.failed = @ \cup {"embed"}]

\* a retrieve that issued the search again when it raised
SearchRetried(r) ==
    [r EXCEPT !.issued = Bump(@, "search"), !.failed = @ \cup {"search"}]

\* lines 33-37 when the awaited search raises
SearchRaised(r) ==
    [r EXCEPT !.pc = "raised", !.exc = Propagate(QdrantError),
              !.failed = @ \cup {"search"}]

\* a retrieve that asked the graph store only when the vector search had hits
SearchReturnedGated(r, hits, sessionOk) ==
    IF hits = << >>
    THEN [r EXCEPT !.pc = "returned", !.ret = << Str(EmptyText), List(<< >>) >>]
    ELSE IF sessionOk
    THEN [r EXCEPT !.pc = "await_run",
                   !.relevant_texts = [i \in 1..Len(hits) |-> hits[i].payload.text],
                   !.vctx = Join([i \in 1..Len(hits) |-> hits[i].payload.text]),
                   !.runParams = RunParams(r.query),
                   !.issued = Bump(@, "graph")]
    ELSE [r EXCEPT !.pc = "raised",
                   !.relevant_texts = [i \in 1..Len(hits) |-> hits[i].payload.text],
                   !.vctx = Join([i \in 1..Len(hits) |-> hits[i].payload.text]),
                   !.exc = Propagate(Neo4jError),
                   !.issued = Bump(@, "graph"),
                   !.failed = @ \cup {"graph"}]

\* lines 39-55 when the search returns `hits`: join the payload texts, open
\* the session, issue the Cypher query and suspend (issued.graph counts the
\* use of the graph store, which begins with the session)
SearchReturned(r, hits, sessionOk) ==
    LET relevant_texts == [i \in 1..Len(hits) |-> hits[i].payload.text]
        all_relevant_texts == Join(relevant_texts)
    IN IF sessionOk
       THEN [r EXCEPT !.pc = "await_run", !.relevant_texts = relevant_texts,
                      !.vctx = all_relevant_texts,
                      !.runParams = RunParams(r.query),
                      !.issued = Bump(@, "graph")]
       ELSE [r EXCEPT !.pc = "raised", !.relevant_texts = relevant_texts,
                      !.vctx = all_relevant_texts,
                      !.exc = Propagate(Neo4jError),
                      !.issued = Bump(@, "graph"),
                      !.failed = @ \cup {"graph"}]

\* line 55 when session.run raises, lines 57-58 when fetching a record raises
GraphRaised(r) ==
    [r EXCEPT !.pc = "raised", !.cursor = << >>, !.exc = Propagate(Neo4jError),
              !.failed = @ \cup {"graph"}]

\* lines 55-56: session.run returned a result cursor over `records`
RunReturned(r, records) ==
    [r EXCEPT !.pc = "iter", !.records = records, !.cursor = records, !.gctx = << >>]

\* a retrieve that dropped a graph text the vector context already holds
RecordFetchedDistinct(r) ==
    IF \E i \in 1..Len(r.relevant_texts) : r.relevant_texts[i] = Head(r.cursor)
    THEN [r EXCEPT !.cursor = Tail(@)]
    ELSE [r EXCEPT !.gctx = Append(@, Head(r.cursor)), !.cursor = Tail(@)]

\* lines 57-58: one turn of the async for
RecordFetched(r) ==
    [r EXCEPT !.gctx = Append(@, Head(r.cursor)), !.cursor = Tail(@)]

\* a retrieve that joined the graph texts the way it joins the vector texts
ReturnValueJoined(r) == << Str(r.vctx), Str(Join(r.gctx)) >>

\* line 60: the value retrieve returns
ReturnValue(r) == << Str(r.vctx), List(r.gctx) >>

\* lines 57-60: the cursor is exhausted, the session closes, retrieve returns
Returned(r) == [r EXCEPT !.pc = "returned", !.ret = ReturnValue(r)]

(* generate_answer_with_mistral *)

\* lines 62-110: build the prompt from the arguments, issue the chat call
GenerateEnter(r, query, milvus_context, neo4j_context) ==
    [r EXCEPT !.pc = "await_chat",
              !.genArgs = << query, milvus_context, neo4j_context >>,
              !.issued = Bump(@, "chat")]

\* lines 105-110 when the awaited chat call raises
ChatRaised(r) ==
    [r EXCEPT !.pc = "gen_raised", !.exc = Propagate(MistralError),
              !.failed = @ \cup {"chat"}]

\* line 113: response.choices[0].message.content.strip()
ChatReturned(r, content) ==
    [r EXCEPT !.pc = "answered", !.answer = Strip(content)]

----------------------------------------------------------------------------
(* Actions of the coroutines *)

proc == <<phase, constructed, apiKey, binding, depth, exitCode, procExc,
          printed, argQuery>>

Running == phase \in {"ready", "running"}

\* history: the invocations of retrieve that have returned by now
ReturnedCalls == {d \in Calls : call[d].ret # << >>}

\* a program that imported retrieval calls retrieve(q)
CallRetrieve(c, q) ==
    /\ phase = "ready"
    /\ call[c].pc = "idle"
    /\ \E embedOk \in BOOLEAN :
          call' = [call EXCEPT ![c] =
                      RetrieveEnter([@ EXCEPT !.after = ReturnedCalls], q, "host", embedOk)]
    /\ UNCHANGED <<fixed, proc>>

SearchReturns(c) ==
    /\ Running
    /\ call[c].pc = "await_search"
    /\ \E sessionOk \in BOOLEAN :
          call' = [call EXCEPT ![c] =
                      SearchReturned(@, Search(collection, call[c].qvec, VectorLimit),
                                     sessionOk)]
    /\ UNCHANGED <<fixed, proc>>

SearchFails(c) ==
    /\ Running
    /\ call[c].pc = "await_search"
    /\ call' = [call EXCEPT ![c] = SearchRaised(@)]
    /\ UNCHANGED <<fixed, proc>>

\* a retrieve that kept the query in a module-level variable, which the call
\* that began last has overwritten
RunReturnsSharedQuery(c) ==
    /\ Running
    /\ call[c].pc = "await_run"
    /\ LET shared == IF \E d \in Calls \ {c} : call[d].pc # "idle" /\ d \notin call[c].after
                     THEN call[CHOOSE d \in Calls \ {c} : call[d].pc # "idle" /\ d \notin call[c].after].query
                     ELSE call[c].query
       IN \E records \in GraphResults(chunks, shared, GraphLimit) :
             call' = [call EXCEPT ![c] = RunReturned(@, records)]
    /\ UNCHANGED <<fixed, proc>>

RunReturns(c) ==
    /\ Running
    /\ call[c].pc = "await_run"
    /\ \E records \in GraphResults(chunks, call[c].runParams.query, GraphLimit) :
          call' = [call EXCEPT ![c] = RunReturned(@, records)]
    /\ UNCHANGED <<fixed, proc>>

RunFails(c) ==
    /\ Running
    /\ call[c].pc = "await_run"
    /\ call' = [call EXCEPT ![c] = GraphRaised(@)]
    /\ UNCHANGED <<fixed, proc>>

NextRecord(c) ==
    /\ Running
    /\ call[c].pc = "iter"
    /\ call[c].cursor # << >>
    /\ call' = [call EXCEPT ![c] = RecordFetched(@)]
    /\ UNCHANGED <<fixed, proc>>

IterFails(c) ==
    /\ Running
    /\ call[c].pc = "iter"
    /\ call' = [call EXCEPT ![c] = GraphRaised(@)]
    /\ UNCHANGED <<fixed, proc>>

IterDone(c) ==
    /\ Running
    /\ call[c].pc = "iter"
    /\ call[c].cursor = << >>
    /\ call' = [call EXCEPT ![c] = Returned(@)]
    /\ UNCHANGED <<fixed, proc>>

\* the importing program passes what retrieve returned to the generator
CallGenerate(c) ==
    /\ phase = "ready"
    /\ call[c].pc = "returned"
    /\ call[c].owner = "host"
    /\ call' = [call EXCEPT ![c] =
                   GenerateEnter(@, call[c].query, call[c].ret[1], call[c].ret[2])]
    /\ UNCHANGED <<fixed, proc>>

ChatReturns(c) ==
    /\ Running
    /\ call[c].pc = "await_chat"
    /\ \E content \in Contents :
          call' = [call EXCEPT ![c] = ChatReturned(@, content)]
    /\ UNCHANGED <<fixed, proc>>

ChatFails(c) ==
    /\ Running
    /\ call[c].pc = "await_chat"
    /\ call' = [call EXCEPT ![c] = ChatRaised(@)]
    /\ UNCHANGED <<fixed, proc>>

----------------------------------------------------------------------------
(* scripts.py run as a program *)

\* lines 48-50: read sys.argv[1] and run the wrapper coroutine
Main ==
    /\ phase = "main"
    /\ \E a \in Queries \cup {NoArg} :
          IF a = NoArg
          THEN /\ Die("IndexError")
               /\ UNCHANGED argQuery
          ELSE /\ argQuery' = a
               /\ phase' = "running"
               /\ depth' = 1
               /\ UNCHANGED <<exitCode, procExc>>
    /\ UNCHANGED <<fixed, constructed, apiKey, binding, printed, call>>

\* lines 43-46 and 50-51: the innermost frame of scripts.retrieve evaluates
\* `await retrieve(query)` with `retrieve` looked up in the module's globals;
\* with the orchestrator's result it calls the generator, and the answer that
\* comes back is printed
WrapperStep ==
    /\ phase = "running"
    /\ IF binding = "scripts.retrieve"
       THEN /\ IF depth < RecursionLimit
               THEN /\ depth' = depth + 1
                    /\ UNCHANGED <<phase, exitCode, procExc>>
               ELSE Die("RecursionError")
            /\ UNCHANGED <<call, printed>>
       ELSE LET r == call[1]
            IN IF r.pc = "idle"
               THEN /\ \E embedOk \in BOOLEAN :
                          call' = [call EXCEPT ![1] =
                                      RetrieveEnter([@ EXCEPT !.after = ReturnedCalls],
                                                    argQuery, "wrapper", embedOk)]
                    /\ UNCHANGED <<phase, exitCode, procExc, depth, printed>>
               ELSE IF r.pc = "returned"
               THEN /\ call' = [call EXCEPT ![1] =
                                   GenerateEnter(@, argQuery, r.ret[1], r.ret[2])]
                    /\ UNCHANGED <<phase, exitCode, procExc, depth, printed>>
               ELSE IF r.pc \in {"raised", "gen_raised"}
               THEN /\ Die(r.exc.type)
                    /\ UNCHANGED <<call, printed>>
               ELSE IF r.pc = "answered"
               THEN /\ printed' = << r.answer >>
                    /\ exitCode' = 0
                    /\ phase' = "exited"
                    /\ depth' = 0
                    /\ UNCHANGED <<call, procExc>>
               ELSE FALSE
    /\ UNCHANGED <<fixed, constructed, apiKey, binding, argQuery>>

----------------------------------------------------------------------------

Next ==
    \/ ImportIngest
    \/ ImportRetrieval
    \/ InitConfig
    \/ Main
    \/ WrapperStep
    \/ \E c \in Calls, q \in Queries : CallRetrieve(c, q)
    \/ \E c \in Calls : SearchReturns(c)
    \/ \E c \in Calls : SearchFails(c)
    \/ \E c \in Calls : RunReturns(c)
    \/ \E c \in Calls : RunFails(c)
    \/ \E c \in Calls : NextRecord(c)
    \/ \E c \in Calls : IterFails(c)
    \/ \E c \in Calls : IterDone(c)
    \/ \E c \in Calls : CallGenerate(c)
    \/ \E c \in Calls : ChatReturns(c)
    \/ \E c \in Calls : ChatFails(c)

Spec == Init /\ [][Next]_vars

----------------------------------------------------------------------------
(* preprocess.extract_entities_relationships: the offline extraction job.
   Time passes only in time.sleep and inside the call of the generative model;
   the statements between them take no time. *)

\* lines 55-57
requests_per_minute == 2
requests_per_day == 50
tokens_per_minute == 32000

\* timedelta(minutes=1) and the 60 of lines 94 and 107, timedelta(days=1), sleep(1)
Minute == 60
Day == 86400
SmallDelay == 1

\* the characters of the prompt of lines 118-131 around its three placeholders
PromptFrame == 536

\* the job handles at most this many chapters
MaxChapters == 3

\* a chapter: the length of its number and title, the length of its text
ChapterChoices == { [heading |-> 12, text |-> 4000], [heading |-> 12, text |-> 132000] }
ChapterLists == UNION { [1..n -> ChapterChoices] : n \in 0..MaxChapters }

\* seconds a call of generate_content takes, and the length of response.text
Durations == {0, 30}
ResponseLengths == {400}

\* the time of day at which the job begins
StartTimes == {0, 43200}

\* current_time.replace(hour=0, minute=0, second=0, microsecond=0)
Midnight(t) == (t \div Day) * Day

\* min(requests_timestamps)
RECURSIVE Oldest(_)
Oldest(stamps) ==
    IF Len(stamps) = 1 THEN stamps[1]
    ELSE LET rest == Oldest(Tail(stamps))
         IN IF stamps[1] <= rest THEN stamps[1] ELSE rest

\* sum(tokens for _, tokens in tokens_usage), in characters
RECURSIVE TotalUsage(_)
TotalUsage(usage) ==
    IF usage = << >> THEN 0 ELSE usage[1][2] + TotalUsage(Tail(usage))

online == <<entry, env, chunks, collection, phase, constructed, apiKey, binding, depth,
            exitCode, procExc, printed, argQuery, call>>

ExtractInit ==
    /\ entry = "preprocess"
    /\ env = AllVars
    /\ chunks = << >>
    /\ collection = << >>
    /\ phase = "extract"
    /\ constructed = {}
    /\ apiKey = "unset"
    /\ binding = "unbound"
    /\ depth = 0
    /\ exitCode = -1
    /\ procExc = "none"
    /\ printed = << >>
    /\ argQuery = NoArg
    /\ call = [c \in Calls |-> IdleCall]
    /\ epc = "loop"
    /\ now \in StartTimes
    /\ chapters \in ChapterLists
    /\ chapterIndex = 0
    /\ requests_timestamps = << >>
    /\ tokens_usage = << >>
    /\ daily_requests_count = 0
    /\ day_start = Midnight(now)
    /\ results = << >>
    /\ issuedAt = << >>
    /\ counted = 0

\* lines 71-136: one turn of the loop up to the call of the model: the daily
\* check, the check of the requests of the last minute, the check of the
\* tokens of the last minute, each with its sleep, then generate_content
IssueCall ==
    /\ epc = "loop"
    /\ chapterIndex < Len(chapters)
    /\ LET newDay == now - day_start > Day
           start1 == IF newDay THEN Midnight(now) ELSE day_start
           count1 == IF newDay THEN 0 ELSE daily_requests_count
           overDay == count1 >= requests_per_day
           time1 == IF overDay THEN Midnight(now) + Day ELSE now
           kept == SelectSeq(requests_timestamps, LAMBDA ts : time1 - ts <= Minute)
           wait_time == IF Len(kept) >= requests_per_minute
                        THEN Minute - (time1 - Oldest(kept)) ELSE 0
           time2 == IF wait_time > 0 THEN time1 + wait_time ELSE time1
           keptUsage == SelectSeq(tokens_usage, LAMBDA u : time2 - u[1] < Minute)
           estimated == chapters[chapterIndex + 1].text
           time3 == IF TotalUsage(keptUsage) + estimated > 4 * tokens_per_minute
                    THEN time2 + Minute ELSE time2
       IN /\ day_start' = IF overDay THEN Midnight(now) ELSE start1
          /\ daily_requests_count' = IF overDay THEN 0 ELSE count1
          /\ requests_timestamps' = kept
          /\ tokens_usage' = keptUsage
          /\ now' = time3
          /\ issuedAt' = Append(issuedAt, time3)
    /\ epc' = "calling"
    /\ UNCHANGED <<online, chapters, chapterIndex, results, counted>>

\* lines 136-174: generate_content returned; the call is recorded, the concepts
\* are stored, and the job sleeps one second unless this was the last chapter
CallSucceeds ==
    /\ epc = "calling"
    /\ \E d \in Durations, n \in ResponseLengths :
          LET current_time == now + d
              chapter == chapters[chapterIndex + 1]
              approx == PromptFrame + chapter.heading + chapter.text + n
          IN /\ requests_timestamps' = Append(requests_timestamps, current_time)
             /\ tokens_usage' = Append(tokens_usage, <<current_time, approx>>)
             /\ now' = IF chapterIndex < Len(chapters) - 1
                       THEN current_time + SmallDelay ELSE current_time
    /\ counted' = counted + 1
    /\ daily_requests_count' = daily_requests_count + 1
    /\ results' = Append(results, "concepts")
    /\ chapterIndex' = chapterIndex + 1
    /\ epc' = "loop"
    /\ UNCHANGED <<online, chapters, day_start, issuedAt>>

\* lines 136 and 176-179: generate_content raised; the handler stores an error
\* note and the loop goes on
CallRaises ==
    /\ epc = "calling"
    /\ \E d \in Durations : now' = now + d
    /\ results' = Append(results, "error")
    /\ chapterIndex' = chapterIndex + 1
    /\ epc' = "loop"
    /\ UNCHANGED <<online, chapters, requests_timestamps, tokens_usage,
                   daily_requests_count, day_start, issuedAt, counted>>

\* line 181: the chapters are exhausted, the job returns results
ExtractDone ==
    /\ epc = "loop"
    /\ chapterIndex = Len(chapters)
    /\ epc' = "done"
    /\ UNCHANGED <<online, now, chapters, chapterIndex, requests_timestamps, tokens_usage,
                   daily_requests_count, day_start, results, issuedAt, counted>>

ExtractNext ==
    \/ IssueCall
    \/ CallSucceeds
    \/ CallRaises
    \/ ExtractDone

ExtractSpec == ExtractInit /\ [][ExtractNext]_vars

----------------------------------------------------------------------------
(* Properties *)

\* a well-formed query: not empty and not only whitespace
WellFormed(q) == Strip(q) # EmptyText

\* retrieve has handed a result back to its caller
HasReturned(r) == r.ret # << >>

\* every variable of the environment is set
Configured == env = AllVars

\* the chunks the graph query matches for the query of r
Matching(r) == {i \in 1..Len(chunks) : CypherMatch(chunks[i], r.query)}

\* C1: in a fully configured process, when the vector search of a well-formed
\* query raises while the graph store does not and has matching chunks,
\* retrieve does not raise: the graph query is still issued, and the result
\* has an empty vector context and a non-empty graph context.
C1_VectorFailureDegrades ==
    \A c \in Calls :
        LET r == call[c]
        IN (/\ Configured
            /\ WellFormed(r.query)
            /\ "search" \in r.failed
            /\ "graph" \notin r.failed
            /\ Matching(r) # {})
           => /\ r.pc # "raised"
              /\ r.issued.graph = 1
              /\ HasReturned(r) => /\ r.ret[1].val = EmptyText
                                   /\ r.ret[2].val # << >>

\* C2: in a fully configured process, when the graph store raises after the vector search of a well-formed
\* query returned hits, retrieve does not raise: it returns the vector context
\* built from the hits and an empty graph context.
C2_GraphFailureDegrades ==
    \A c \in Calls :
        LET r == call[c]
        IN (/\ Configured
            /\ WellFormed(r.query)
            /\ "graph" \in r.failed
            /\ "search" \notin r.failed
            /\ r.relevant_texts # << >>)
           => /\ r.pc # "raised"
              /\ HasReturned(r) => /\ r.ret[1].val = Join(r.relevant_texts)
                                   /\ r.ret[2].val = << >>

\* C3: scripts.py run fully configured, with a well-formed query and no failing
\* dependency, ends
\* with retrieval.retrieve called once, the generator called with the query
\* and the two contexts retrieve returned, and the answer printed.
C3_EntryPointAnswers ==
    (/\ entry = "scripts"
     /\ Configured
     /\ phase = "exited"
     /\ argQuery # NoArg
     /\ WellFormed(argQuery)
     /\ \A c \in Calls : call[c].failed = {})
    => /\ exitCode = 0
       /\ call[1].issued.embed = 1
       /\ call[1].pc = "answered"
       /\ call[1].genArgs = << argQuery, call[1].ret[1], call[1].ret[2] >>
       /\ printed = << call[1].answer >>

\* C4: when the embedding provider raises for a well-formed query, retrieve raises an EmbeddingFailure,
\* issues neither the vector search nor the graph query, and the generator is
\* not called for that query.
C4_EmbeddingFailureTyped ==
    \A c \in Calls :
        LET r == call[c]
        IN (Configured /\ WellFormed(r.query) /\ "embed" \in r.failed)
           => /\ r.pc = "raised"
              /\ r.exc.type = "EmbeddingFailure"
              /\ r.issued.search = 0
              /\ r.issued.graph = 0
              /\ r.issued.chat = 0

C6_GenerationFailureTyped ==
    \A c \in Calls :
        LET r == call[c]
        IN (Configured /\ WellFormed(r.query) /\ "chat" \in r.failed)
           => /\ r.pc = "gen_raised"
              /\ r.exc.type = "GenerationFailure"
              /\ r.exc.cause = "SDKError"
              /\ (entry = "scripts" /\ phase = "exited")
                 => (exitCode # 0 /\ printed = << >>)

\* C7: retrieve called with an empty or whitespace-only query is a caller
\* error: the graph query is not run with it and no context pair comes back.
C7_BlankQueryRejected ==
    \A c \in Calls :
        LET r == call[c]
        IN (Configured /\ r.pc # "idle" /\ ~WellFormed(r.query))
           => /\ r.issued.graph = 0
              /\ ~HasReturned(r)
              /\ r.pc \in {"raised", "await_search"}

\* C8: two successive calls of retrieve with the same well-formed query against the
\* unchanged stores return the same vector context and the same graph context.
C8_RetrieveIdempotent ==
    \A c, d \in Calls :
        (/\ Configured
         /\ WellFormed(call[c].query)
         /\ c \in call[d].after
         /\ HasReturned(call[d])
         /\ call[c].query = call[d].query)
        => call[c].ret = call[d].ret

C10_AtMostOnce ==
    \A c \in Calls :
        \A dep \in {"embed", "search", "graph", "chat"} :
            /\ call[c].issued[dep] <= 1
            /\ dep \in call[c].failed => call[c].issued[dep] = 1

\* C10 witness: a pipeline that invoked all four dependencies and whose chat
\* call failed, beside one whose vector search failed
C10_Witness ==
    /\ \E c \in Calls :
          /\ call[c].pc = "gen_raised"
          /\ call[c].issued = [embed |-> 1, search |-> 1, graph |-> 1, chat |-> 1]
    /\ \E c \in Calls :
          /\ call[c].pc = "raised"
          /\ "search" \in call[c].failed

\* the vector context retrieve builds for query q when it runs alone
SoloVectorContext(q) ==
    LET hits == Search(collection, Embed(q), VectorLimit)
    IN Str(Join([i \in 1..Len(hits) |-> hits[i].payload.text]))

\* how often text t occurs in the sequence texts
CountIn(texts, t) == Cardinality({i \in 1..Len(texts) : texts[i] = t})

\* g is a graph context retrieve can build for query q when it runs alone:
\* as many texts as the Cypher query returns, each the text of a matching
\* Chunk node, none more often than there are nodes with that text
SoloGraphContext(g, q) ==
    /\ Len(g) = Min(GraphLimit, Cardinality({i \in 1..Len(chunks) : CypherMatch(chunks[i], q)}))
    /\ \A i \in 1..Len(g) :
          /\ CypherMatch(g[i], q)
          /\ CountIn(g, g[i]) <= CountIn(chunks, g[i])

\* calls c and d overlapped: neither began after the other had returned
Overlapped(c, d) == c # d /\ c \notin call[d].after /\ d \notin call[c].after /\ call[c].pc # "idle" /\ call[d].pc # "idle"

\* C11: whatever other calls of retrieve run beside it and however they
\* interleave at the await points, a call that returns hands back a context
\* pair it can return when it runs alone: the vector context of its own query,
\* and a graph context the store can give to its own query, every text of
\* which matches that query.
C11_PerQueryIsolation ==
    \A c \in Calls :
        LET r == call[c]
        IN HasReturned(r)
           => /\ r.ret[1] = SoloVectorContext(r.query)
              /\ r.ret[2].kind = "list"
              /\ SoloGraphContext(r.ret[2].val, r.query)

\* C11 witness: two overlapping calls with different well-formed queries have
\* both returned, with different vector contexts and different graph contexts
C11_Witness ==
    \E c, d \in Calls :
        /\ Overlapped(c, d)
        /\ WellFormed(call[c].query) /\ WellFormed(call[d].query)
        /\ call[c].query # call[d].query
        /\ HasReturned(call[c]) /\ HasReturned(call[d])
        /\ call[c].ret[1] # call[d].ret[1]
        /\ call[c].ret[2] # call[d].ret[2]
        /\ call[c].ret[2].val # << >> /\ call[d].ret[2].val # << >>

\* texts joined by single newlines, built from the last text backwards
RECURSIVE JoinedByNewlines(_)
JoinedByNewlines(texts) ==
    IF texts = << >> THEN EmptyText
    ELSE IF Len(texts) = 1 THEN texts[1]
    ELSE JoinedByNewlines(SubSeq(texts, 1, Len(texts) - 1)) \o <<NL>> \o texts[Len(texts)]

\* the hits the vector store gives to call r, best match first
HitsOf(r) == Search(collection, r.qvec, VectorLimit)

\* C12: a call that returns hands back, as vector context, the payload texts
\* of the at most five hits of its vector search joined by single newlines in
\* rank order and nothing else, and as graph context exactly the texts of the
\* records the graph query returned, in the order returned; a text both stores
\* returned stays in both contexts.
C12_MergeKeepsBothContexts ==
    \A c \in Calls :
        LET r == call[c]
            hits == HitsOf(r)
            texts == [i \in 1..Len(hits) |-> hits[i].payload.text]
        IN HasReturned(r)
           => /\ Len(hits) <= VectorLimit
              /\ \A i, j \in 1..Len(hits) :
                    i < j => Abs(hits[i].vector - r.qvec) <= Abs(hits[j].vector - r.qvec)
              /\ r.ret[1] = Str(JoinedByNewlines(texts))
              /\ r.ret[2] = List(r.records)
              /\ \A i \in 1..Len(r.records) :
                    (\E j \in 1..Len(texts) : texts[j] = r.records[i])
                        => r.ret[2].val[i] = r.records[i]

\* C12 witness: a call returned after at least two hits and at least one graph
\* record, one of the graph texts being also the text of a hit
C12_Witness ==
    \E c \in Calls :
        LET r == call[c]
            hits == HitsOf(r)
        IN /\ HasReturned(r)
           /\ Len(hits) >= 2
           /\ Len(r.records) >= 1
           /\ \E i \in 1..Len(r.records), j \in 1..Len(hits) : hits[j].payload.text = r.records[i]
           /\ \E i \in 1..Len(r.ret[1].val) : r.ret[1].val[i] = NL

\* the vector search of call r has returned (with hits or with none)
SearchAnswered(r) == r.issued.search = 1 /\ "search" \notin r.failed /\ r.pc # "await_search"

C14_RateLimited ==
    /\ \A k \in 1..Len(issuedAt) :
          k + requests_per_minute <= Len(issuedAt)
              => issuedAt[k + requests_per_minute] - issuedAt[k] >= Minute
    /\ epc \in {"loop", "done"} => counted = Len(issuedAt)

====
